---- MODULE Spec2Model ----
(***************************************************************************)
(* Accounts page of the event hub (src/src/pages/Accounts.tsx): the        *)
(* per-stall billing / payment reconciliation, the event-wide totals and   *)
(* the recording of payments, over the tables of src/unnamed/part_001.     *)
(*                                                                         *)
(* Money is counted in paise (1/100 rupee), the resolution of the          *)
(* NUMERIC(10,2) columns, so that every amount is an integer.  A value     *)
(* that may be missing (a JSON number of a line item, the text of a form   *)
(* field) is a sequence: <<>> when missing, <<v>> when present.  The text   *)
(* of a number input is held as the number parseFloat reads from it.       *)
(***************************************************************************)
EXTENDS Integers, Sequences, FiniteSets, TLC

VARIABLES
  dbStalls,             \* table public.stalls, ordered by counter_name
  dbBilling,            \* table public.billing_transactions, oldest first
  dbPayments,           \* table public.payments, oldest first
  dbRegistrations,      \* table public.registrations, oldest first
  stalls,               \* per client: data of useQuery(['stalls'])
  payments,             \* per client: data of useQuery(['payments'])
  billingTransactions,  \* per client: data of useQuery(['billing_transactions'])
  registrations,        \* per client: data of useQuery(['registrations'])
  paymentsInvalidated,  \* per client: the payments query is marked stale
  showPaymentForm,      \* per client: useState(false)
  paymentType,          \* per client: useState("stall")
  stallPayment,         \* per client: [stallId, amount]
  otherPayment,         \* per client: [narration, amount]
  mutation,             \* per client: createPaymentMutation [status, payload]
  toast,                \* per client: the last toast shown
  dbProducts,           \* table public.products, oldest first
  dbEnquiryFields,      \* table public.stall_enquiry_fields
  dbEnquiries,          \* table public.stall_enquiries, oldest first
  enquiry,              \* the StallEnquiry page: its state, queries and mutation
  enquiryAdmin,         \* the StallEnquiryAdmin page: its queries and reorderMutation
  dbShares,             \* table public.survey_shares, oldest first
  surveyCreate,         \* the SurveyCreate component: formData, wards query, shareMutation
  surveyResults,        \* the SurveyResults component: selection and queries
  dbPermissions,        \* table public.admin_permissions
  permissionPage        \* the PermissionManagement page: auth, state and queries

\* a page that is not open has no state
Unmounted == <<>>

productVars == <<dbProducts>>
fieldVars == <<dbEnquiryFields, enquiryAdmin>>
enquiryVars == <<dbEnquiries, enquiry>>
shareVars == <<dbShares, surveyCreate, surveyResults>>
permissionVars == <<dbPermissions, permissionPage>>

ProductsIdle == dbProducts = <<>>
FieldsIdle == dbEnquiryFields = <<>> /\ enquiryAdmin = Unmounted
EnquiryIdle == dbEnquiries = <<>> /\ enquiry = Unmounted
SharesIdle == dbShares = <<>> /\ surveyCreate = Unmounted /\ surveyResults = Unmounted
PermissionsIdle == dbPermissions = <<>> /\ permissionPage = Unmounted

\* what the accounts page never writes: the other tables and the other pages
elsewhereVars == <<productVars, fieldVars, enquiryVars, shareVars, permissionVars>>
ElsewhereIdle == ProductsIdle /\ FieldsIdle /\ EnquiryIdle /\ SharesIdle /\ PermissionsIdle

dbVars == <<dbStalls, dbBilling, dbPayments, dbRegistrations, elsewhereVars>>
queryVars == <<stalls, payments, billingTransactions, registrations, paymentsInvalidated>>
formVars == <<showPaymentForm, paymentType, stallPayment, otherPayment>>
vars == <<dbVars, queryVars, formVars, mutation, toast>>

----------------------------------------------------------------------------
(* Bounds and value sets *)

MaxPayments == 2      \* rows of public.payments written in one behaviour
MaxTx == 2            \* billing transactions drawn for the billing table
MaxItems == 2         \* line items drawn over the whole billing table
MaxLedgerPayments == 2 \* payment rows drawn for the payments table
MaxRegistrations == 3  \* registration rows drawn for the registrations table
MaxProducts == 2       \* rows of public.products
MaxEnquiries == 1      \* rows of public.stall_enquiries written in one behaviour
MaxShares == 1         \* rows of public.survey_shares written in one behaviour
MaxPermissionRows == 3 \* rows of admin_permissions
MaxInFlight == 2       \* update requests of reorderMutation in flight
MaxShareRows == 3      \* rows of public.survey_shares when the results are opened

StallIds == {"s1", "s2"}
Absent == <<>>
Some(v) == <<v>>

\* amounts typed into the payment forms (paise)
Amounts == {-5000, 11000}

----------------------------------------------------------------------------
(* JavaScript helpers *)

\* `v || d` on an optional number: a missing value and 0 are both falsy
OrElse(v, d) == IF v = Absent \/ v = Some(0) THEN d ELSE v[1]

\* Array.prototype.reduce((sum, x) => sum + x, 0) over a sequence of numbers
RECURSIVE SumSeq(_)
SumSeq(s) == IF s = <<>> THEN 0 ELSE Head(s) + SumSeq(Tail(s))

Max(a, b) == IF a >= b THEN a ELSE b

\* ORDER BY created_at DESC of a table kept oldest first
Newest(s) == [i \in 1..Len(s) |-> s[Len(s) + 1 - i]]

----------------------------------------------------------------------------
(* selectedStallDetails and the event-wide totals *)

StallTransactions(bts, sid) == SelectSeq(bts, LAMBDA t : t.stall_id = sid)

\* faulty variant: the stall filter of the transactions is missing
BilledAmount_AllStalls(bts, sid) ==
  SumSeq([i \in 1..Len(bts) |-> OrElse(bts[i].total, 0)])

BilledAmount(bts, sid) ==
  LET txs == StallTransactions(bts, sid)
  IN  SumSeq([i \in 1..Len(txs) |-> OrElse(txs[i].total, 0)])

ItemTotal(item) == OrElse(item.price, 0) * OrElse(item.quantity, 1)

Commission(item) == OrElse(item.event_margin, 20)

\* faulty variant: no commission is deducted
ItemBalance_NoCommission(item) == ItemTotal(item)

\* itemTotal * (1 - commission / 100); the prices drawn are whole rupees and
\* the margins whole percents, so the division is exact
ItemBalance(item) == (ItemTotal(item) * (100 - Commission(item))) \div 100

TxBalance(tx) == SumSeq([i \in 1..Len(tx.items) |-> ItemBalance(tx.items[i])])

BillBalance(bts, sid) ==
  LET txs == StallTransactions(bts, sid)
  IN  SumSeq([i \in 1..Len(txs) |-> TxBalance(txs[i])])

\* faulty variant: the stall filter of the payments is missing
AlreadyPaid_AnyStall(ps, sid) ==
  LET mine == SelectSeq(ps, LAMBDA p : p.payment_type = "participant")
  IN  SumSeq([i \in 1..Len(mine) |-> OrElse(mine[i].amount_paid, 0)])

AlreadyPaid(ps, sid) ==
  LET mine == SelectSeq(ps, LAMBDA p : p.stall_id = Some(sid) /\ p.payment_type = "participant")
  IN  SumSeq([i \in 1..Len(mine) |-> OrElse(mine[i].amount_paid, 0)])

\* faulty variant: the floor at 0 is missing
RemainingBalance_NoFloor(bts, ps, sid) == BillBalance(bts, sid) - AlreadyPaid(ps, sid)

RemainingBalance(bts, ps, sid) == Max(0, BillBalance(bts, sid) - AlreadyPaid(ps, sid))

\* the memo for client c; Absent when no stall is selected
SelectedStallDetails(c) ==
  IF stallPayment[c].stallId = "" THEN Absent
  ELSE LET sid == stallPayment[c].stallId
       IN  Some([billedAmount     |-> BilledAmount(billingTransactions[c], sid),
                 billBalance      |-> BillBalance(billingTransactions[c], sid),
                 alreadyPaid      |-> AlreadyPaid(payments[c], sid),
                 remainingBalance |-> RemainingBalance(billingTransactions[c], payments[c], sid)])

TotalBillingCollected(c) ==
  SumSeq([i \in 1..Len(billingTransactions[c]) |-> OrElse(billingTransactions[c][i].total, 0)])

\* faulty variant: the stall counter bookings are counted too
TotalRegistrationCollected_AllTypes(c) ==
  SumSeq([i \in 1..Len(registrations[c]) |-> OrElse(registrations[c][i].amount, 0)])

TotalRegistrationCollected(c) ==
  LET rs == SelectSeq(registrations[c], LAMBDA r : r.registration_type # "stall_counter")
  IN  SumSeq([i \in 1..Len(rs) |-> OrElse(rs[i].amount, 0)])

StallBookingFees(c) ==
  SumSeq([i \in 1..Len(stalls[c]) |-> OrElse(stalls[c][i].registration_fee, 0)])

\* faulty variant: the stall booking fees are left out
TotalCollected_NoBookingFees(c) == TotalBillingCollected(c) + TotalRegistrationCollected(c)

TotalCollected(c) == TotalBillingCollected(c) + TotalRegistrationCollected(c) + StallBookingFees(c)

StallPaymentsTotal(c) ==
  LET ps == SelectSeq(payments[c], LAMBDA p : p.payment_type = "participant")
  IN  SumSeq([i \in 1..Len(ps) |-> OrElse(ps[i].amount_paid, 0)])

OtherPaymentsTotal(c) ==
  LET ps == SelectSeq(payments[c], LAMBDA p : p.payment_type = "other")
  IN  SumSeq([i \in 1..Len(ps) |-> OrElse(ps[i].amount_paid, 0)])

\* faulty variant: the stall payments are counted as paid out too
TotalPaid_WithStallPayments(c) == StallPaymentsTotal(c) + OtherPaymentsTotal(c)

TotalPaid(c) == OtherPaymentsTotal(c)

\* faulty variant: the balance is floored at 0
CashBalance_Floored(c) == Max(0, TotalCollected(c) - TotalPaid(c))

CashBalance(c) == TotalCollected(c) - TotalPaid(c)

EmpBookingTotal(c) ==
  LET rs == SelectSeq(registrations[c], LAMBDA r : r.registration_type = "employment_booking")
  IN  SumSeq([i \in 1..Len(rs) |-> OrElse(rs[i].amount, 0)])

EmpRegTotal(c) ==
  LET rs == SelectSeq(registrations[c], LAMBDA r : r.registration_type = "employment_registration")
  IN  SumSeq([i \in 1..Len(rs) |-> OrElse(rs[i].amount, 0)])

----------------------------------------------------------------------------
(* Rows *)

Item(p, q, m) == [price |-> p, quantity |-> q, event_margin |-> m]
Tx(sid, total, items) == [stall_id |-> sid, total |-> Some(total), items |-> items]
StallRow(sid, verified, fee) == [id |-> sid, is_verified |-> verified, registration_fee |-> Some(fee)]
PaymentRow(type, sid, amount) == [payment_type |-> type, stall_id |-> sid, amount_paid |-> Some(amount)]
RegistrationRow(type, amount) == [registration_type |-> type, amount |-> Some(amount)]

NoPayload == Absent
Idle == [status |-> "idle", payload |-> NoPayload]

Clients == DOMAIN stallPayment

----------------------------------------------------------------------------
(* The queries *)

\* .from('stalls').select('*').eq('is_verified', true).order('counter_name')
StallsQuery(table) == SelectSeq(table, LAMBDA s : s.is_verified)

FetchStalls(c) ==
  /\ stalls' = [stalls EXCEPT ![c] = StallsQuery(dbStalls)]
  /\ UNCHANGED <<dbVars, payments, billingTransactions, registrations, paymentsInvalidated,
                 formVars, mutation, toast>>

\* .from('payments').select(...).order('created_at', { ascending: false })
FetchPayments(c) ==
  /\ payments' = [payments EXCEPT ![c] = Newest(dbPayments)]
  /\ paymentsInvalidated' = [paymentsInvalidated EXCEPT ![c] = FALSE]
  /\ UNCHANGED <<dbVars, stalls, billingTransactions, registrations, formVars, mutation, toast>>

FetchBillingTransactions(c) ==
  /\ billingTransactions' = [billingTransactions EXCEPT ![c] = Newest(dbBilling)]
  /\ UNCHANGED <<dbVars, stalls, payments, registrations, paymentsInvalidated,
                 formVars, mutation, toast>>

FetchRegistrations(c) ==
  /\ registrations' = [registrations EXCEPT ![c] = Newest(dbRegistrations)]
  /\ UNCHANGED <<dbVars, stalls, payments, billingTransactions, paymentsInvalidated,
                 formVars, mutation, toast>>

----------------------------------------------------------------------------
(* The payment form *)

IsPending(c) == mutation[c].status # "idle"

\* the "Payment to Stall" half of the card is rendered
StallFormShown(c) == showPaymentForm[c] /\ paymentType[c] = "stall"

\* the amount input and its buttons are rendered
StallAmountShown(c) ==
  /\ StallFormShown(c)
  /\ SelectedStallDetails(c) # Absent
  /\ SelectedStallDetails(c)[1].remainingBalance > 0

OtherFormShown(c) == showPaymentForm[c] /\ paymentType[c] = "other"

\* "Event Payments" button, and the Cancel buttons of the shown card
TogglePaymentForm(c) ==
  /\ showPaymentForm' = [showPaymentForm EXCEPT ![c] = ~showPaymentForm[c]]
  /\ UNCHANGED <<dbVars, queryVars, paymentType, stallPayment, otherPayment, mutation, toast>>

SetPaymentType(c, t) ==
  /\ showPaymentForm[c]
  /\ paymentType' = [paymentType EXCEPT ![c] = t]
  /\ UNCHANGED <<dbVars, queryVars, showPaymentForm, stallPayment, otherPayment, mutation, toast>>

\* faulty variant: the recomputation for the new selection drops the loaded
\* payments it has summed
SelectStall_DrainsPayments(c, sid) ==
  /\ StallFormShown(c)
  /\ sid = "" \/ \E i \in 1..Len(stalls[c]) : stalls[c][i].id = sid
  /\ stallPayment' = [stallPayment EXCEPT ![c] = [stallId |-> sid, amount |-> Absent]]
  /\ payments' = [payments EXCEPT ![c] = <<>>]
  /\ UNCHANGED <<dbVars, stalls, billingTransactions, registrations, paymentsInvalidated,
                 showPaymentForm, paymentType, otherPayment, mutation, toast>>

\* <select> onChange: the options are "" and the loaded stalls
SelectStall(c, sid) ==
  /\ StallFormShown(c)
  /\ sid = "" \/ \E i \in 1..Len(stalls[c]) : stalls[c][i].id = sid
  /\ stallPayment' = [stallPayment EXCEPT ![c] = [stallId |-> sid, amount |-> Absent]]
  /\ UNCHANGED <<dbVars, queryVars, showPaymentForm, paymentType, otherPayment, mutation, toast>>

SetStallAmount(c, a) ==
  /\ StallAmountShown(c)
  /\ stallPayment' = [stallPayment EXCEPT ![c].amount = a]
  /\ UNCHANGED <<dbVars, queryVars, showPaymentForm, paymentType, otherPayment, mutation, toast>>

\* "Pay Full Amount": amount = String(remainingBalance)
PayFullAmount(c) ==
  /\ StallAmountShown(c)
  /\ stallPayment' = [stallPayment EXCEPT
                        ![c].amount = Some(SelectedStallDetails(c)[1].remainingBalance)]
  /\ UNCHANGED <<dbVars, queryVars, showPaymentForm, paymentType, otherPayment, mutation, toast>>

SetOtherPayment(c, n, a) ==
  /\ OtherFormShown(c)
  /\ otherPayment' = [otherPayment EXCEPT ![c] = [narration |-> n, amount |-> a]]
  /\ UNCHANGED <<dbVars, queryVars, showPaymentForm, paymentType, stallPayment, mutation, toast>>

\* rows written or about to be written, capped by MaxPayments
InFlight == Cardinality({c \in Clients : mutation[c].status = "pending"})
MayWrite == Len(dbPayments) + InFlight < MaxPayments

\* faulty variant: the amount is compared with nothing
ExceedsRemaining_Never(amount, remaining) == FALSE

\* amount > selectedStallDetails.remainingBalance
ExceedsRemaining(amount, remaining) == amount > remaining

HandleStallPayment(c) ==
  /\ UNCHANGED <<dbVars, queryVars, formVars>>
  /\ StallAmountShown(c)
  /\ ~IsPending(c)
  /\ stallPayment[c].amount # Absent
  /\ LET d == SelectedStallDetails(c)
         amount == stallPayment[c].amount[1]
     IN  IF stallPayment[c].stallId = "" \/ stallPayment[c].amount = Absent
         THEN /\ toast' = [toast EXCEPT ![c] = "Please select a stall and enter amount"]
              /\ UNCHANGED mutation
         ELSE IF d # Absent /\ ExceedsRemaining(amount, d[1].remainingBalance)
         THEN /\ toast' = [toast EXCEPT ![c] = "Amount exceeds remaining balance"]
              /\ UNCHANGED mutation
         ELSE /\ MayWrite
              /\ mutation' = [mutation EXCEPT ![c] =
                   [status |-> "pending",
                    payload |-> Some(PaymentRow("participant", Some(stallPayment[c].stallId), amount))]]
              /\ UNCHANGED toast

HandleOtherPayment(c) ==
  /\ OtherFormShown(c)
  /\ ~IsPending(c)
  /\ IF otherPayment[c].narration = "" \/ otherPayment[c].amount = Absent
     THEN /\ toast' = [toast EXCEPT ![c] = "Please fill all fields"]
          /\ UNCHANGED mutation
     ELSE /\ MayWrite
          /\ mutation' = [mutation EXCEPT ![c] =
               [status |-> "pending",
                payload |-> Some(PaymentRow("other", Absent, otherPayment[c].amount[1]))]]
          /\ UNCHANGED toast
  /\ UNCHANGED <<dbVars, queryVars, formVars>>

----------------------------------------------------------------------------
(* createPaymentMutation *)

\* faulty variant: the write replaces the newest row of the table
InsertPayment_Overwrite(c) ==
  /\ mutation[c].status = "pending"
  /\ dbPayments' = IF dbPayments = <<>> THEN <<mutation[c].payload[1]>>
                   ELSE [dbPayments EXCEPT ![Len(dbPayments)] = mutation[c].payload[1]]
  /\ mutation' = [mutation EXCEPT ![c].status = "inserted"]
  /\ UNCHANGED <<dbStalls, dbBilling, dbRegistrations, elsewhereVars, queryVars, formVars, toast>>

\* mutationFn: the insert reaches storage and the row is written
InsertPayment(c) ==
  /\ mutation[c].status = "pending"
  /\ dbPayments' = Append(dbPayments, mutation[c].payload[1])
  /\ mutation' = [mutation EXCEPT ![c].status = "inserted"]
  /\ UNCHANGED <<dbStalls, dbBilling, dbRegistrations, elsewhereVars, queryVars, formVars, toast>>

\* faulty variant: every query of the page is reset to its initial data
OnSuccess_ResetsQueries(c) ==
  /\ mutation[c].status = "inserted"
  /\ paymentsInvalidated' = [paymentsInvalidated EXCEPT ![c] = TRUE]
  /\ stalls' = [stalls EXCEPT ![c] = <<>>]
  /\ billingTransactions' = [billingTransactions EXCEPT ![c] = <<>>]
  /\ registrations' = [registrations EXCEPT ![c] = <<>>]
  /\ stallPayment' = [stallPayment EXCEPT ![c] = [stallId |-> "", amount |-> Absent]]
  /\ otherPayment' = [otherPayment EXCEPT ![c] = [narration |-> "", amount |-> Absent]]
  /\ showPaymentForm' = [showPaymentForm EXCEPT ![c] = FALSE]
  /\ toast' = [toast EXCEPT ![c] = "Payment recorded!"]
  /\ mutation' = [mutation EXCEPT ![c] = Idle]
  /\ UNCHANGED <<dbVars, payments, paymentType>>

\* faulty variant: the payments query is not invalidated
OnSuccess_NoInvalidate(c) ==
  /\ mutation[c].status = "inserted"
  /\ stallPayment' = [stallPayment EXCEPT ![c] = [stallId |-> "", amount |-> Absent]]
  /\ otherPayment' = [otherPayment EXCEPT ![c] = [narration |-> "", amount |-> Absent]]
  /\ showPaymentForm' = [showPaymentForm EXCEPT ![c] = FALSE]
  /\ toast' = [toast EXCEPT ![c] = "Payment recorded!"]
  /\ mutation' = [mutation EXCEPT ![c] = Idle]
  /\ UNCHANGED <<dbVars, queryVars, paymentType>>

\* onSuccess
OnSuccess(c) ==
  /\ mutation[c].status = "inserted"
  /\ paymentsInvalidated' = [paymentsInvalidated EXCEPT ![c] = TRUE]
  /\ stallPayment' = [stallPayment EXCEPT ![c] = [stallId |-> "", amount |-> Absent]]
  /\ otherPayment' = [otherPayment EXCEPT ![c] = [narration |-> "", amount |-> Absent]]
  /\ showPaymentForm' = [showPaymentForm EXCEPT ![c] = FALSE]
  /\ toast' = [toast EXCEPT ![c] = "Payment recorded!"]
  /\ mutation' = [mutation EXCEPT ![c] = Idle]
  /\ UNCHANGED <<dbVars, stalls, payments, billingTransactions, registrations, paymentType>>

\* faulty variant: the failure clears and closes the form as a success does
OnError_ClosesForm(c) ==
  /\ mutation[c].status = "pending"
  /\ stallPayment' = [stallPayment EXCEPT ![c] = [stallId |-> "", amount |-> Absent]]
  /\ otherPayment' = [otherPayment EXCEPT ![c] = [narration |-> "", amount |-> Absent]]
  /\ showPaymentForm' = [showPaymentForm EXCEPT ![c] = FALSE]
  /\ toast' = [toast EXCEPT ![c] = "Failed to record payment"]
  /\ mutation' = [mutation EXCEPT ![c] = Idle]
  /\ UNCHANGED <<dbVars, queryVars, paymentType>>

\* mutationFn throws (the insert returned an error), then onError
OnError(c) ==
  /\ mutation[c].status = "pending"
  /\ toast' = [toast EXCEPT ![c] = "Failed to record payment"]
  /\ mutation' = [mutation EXCEPT ![c] = Idle]
  /\ UNCHANGED <<dbVars, queryVars, formVars>>

----------------------------------------------------------------------------
(* The page *)

OtherAmounts == {5000}
Narrations == {"", "misc"}

\* stall s1: one sale of 2 items at 100 rupees with margin 20, billed 160;
\* stall s2: no sale yet
PageBilling == << Tx("s1", 16000, <<Item(Some(10000), Some(2), Some(20))>>) >>

PageStalls == << StallRow("s1", TRUE, 50000), StallRow("s2", TRUE, 0) >>

\* one stall counter booking of 300 rupees, one employment booking of 100
PageRegistrations ==
  << RegistrationRow("stall_counter", 30000), RegistrationRow("employment_booking", 10000) >>

ClientInit(cs) ==
  /\ stalls = [c \in cs |-> <<>>]
  /\ payments = [c \in cs |-> <<>>]
  /\ billingTransactions = [c \in cs |-> <<>>]
  /\ registrations = [c \in cs |-> <<>>]
  /\ paymentsInvalidated = [c \in cs |-> FALSE]
  /\ showPaymentForm = [c \in cs |-> FALSE]
  /\ paymentType = [c \in cs |-> "stall"]
  /\ stallPayment = [c \in cs |-> [stallId |-> "", amount |-> Absent]]
  /\ otherPayment = [c \in cs |-> [narration |-> "", amount |-> Absent]]
  /\ mutation = [c \in cs |-> Idle]
  /\ toast = [c \in cs |-> ""]

Query(c) ==
  \/ FetchStalls(c)
  \/ FetchPayments(c)
  \/ FetchBillingTransactions(c)
  \/ FetchRegistrations(c)

StallForm(c, amounts) ==
  \/ TogglePaymentForm(c)
  \/ \E sid \in StallIds \cup {""} : SelectStall(c, sid)
  \/ \E a \in amounts : SetStallAmount(c, Some(a))
  \/ SetStallAmount(c, Absent)
  \/ PayFullAmount(c)

OtherForm(c) ==
  \/ \E t \in {"stall", "other"} : SetPaymentType(c, t)
  \/ \E n \in Narrations, a \in OtherAmounts : SetOtherPayment(c, n, Some(a))
  \/ \E n \in Narrations : SetOtherPayment(c, n, Absent)

Settle(c) ==
  \/ InsertPayment(c)
  \/ OnSuccess(c)
  \/ OnError(c)

(* One client *)

Init ==
  /\ dbStalls = PageStalls
  /\ dbBilling = PageBilling
  /\ dbPayments = <<>>
  /\ dbRegistrations = <<>>
  /\ ClientInit({"c1"})
  /\ ElsewhereIdle

Next ==
  \E c \in Clients :
    \/ Query(c)
    \/ StallForm(c, Amounts)
    \/ OtherForm(c)
    \/ HandleStallPayment(c)
    \/ HandleOtherPayment(c)
    \/ Settle(c)

Spec == Init /\ [][Next]_vars

(* Two clients paying stalls, each with the page loaded *)

RaceAmounts == {16000}

InitRace ==
  /\ dbStalls = PageStalls
  /\ dbBilling = PageBilling
  /\ dbPayments = <<>>
  /\ dbRegistrations = <<>>
  /\ stalls = [c \in {"c1", "c2"} |-> StallsQuery(dbStalls)]
  /\ payments = [c \in {"c1", "c2"} |-> <<>>]
  /\ billingTransactions = [c \in {"c1", "c2"} |-> Newest(dbBilling)]
  /\ registrations = [c \in {"c1", "c2"} |-> <<>>]
  /\ paymentsInvalidated = [c \in {"c1", "c2"} |-> FALSE]
  /\ showPaymentForm = [c \in {"c1", "c2"} |-> FALSE]
  /\ paymentType = [c \in {"c1", "c2"} |-> "stall"]
  /\ stallPayment = [c \in {"c1", "c2"} |-> [stallId |-> "", amount |-> Absent]]
  /\ otherPayment = [c \in {"c1", "c2"} |-> [narration |-> "", amount |-> Absent]]
  /\ mutation = [c \in {"c1", "c2"} |-> Idle]
  /\ toast = [c \in {"c1", "c2"} |-> ""]
  /\ ElsewhereIdle

NextRace ==
  \E c \in Clients :
    \/ FetchPayments(c)
    \/ StallForm(c, RaceAmounts)
    \/ HandleStallPayment(c)
    \/ Settle(c)

SpecRace == InitRace /\ [][NextRace]_vars

(* One client paying stalls, with the scheduling of the mutation callbacks   *)
(* and of the query client: a settled insert runs its onSuccess, and an      *)
(* invalidated query of a mounted page is fetched again.                     *)

Refetch(c) == paymentsInvalidated[c] /\ FetchPayments(c)

InitRefetch ==
  /\ dbStalls = PageStalls
  /\ dbBilling = PageBilling
  /\ dbPayments = <<>>
  /\ dbRegistrations = PageRegistrations
  /\ stalls = [c \in {"c1"} |-> StallsQuery(dbStalls)]
  /\ payments = [c \in {"c1"} |-> <<>>]
  /\ billingTransactions = [c \in {"c1"} |-> Newest(dbBilling)]
  /\ registrations = [c \in {"c1"} |-> Newest(dbRegistrations)]
  /\ paymentsInvalidated = [c \in {"c1"} |-> FALSE]
  /\ showPaymentForm = [c \in {"c1"} |-> FALSE]
  /\ paymentType = [c \in {"c1"} |-> "stall"]
  /\ stallPayment = [c \in {"c1"} |-> [stallId |-> "", amount |-> Absent]]
  /\ otherPayment = [c \in {"c1"} |-> [narration |-> "", amount |-> Absent]]
  /\ mutation = [c \in {"c1"} |-> Idle]
  /\ toast = [c \in {"c1"} |-> ""]
  /\ ElsewhereIdle

NextRefetch ==
  \E c \in Clients :
    \/ FetchPayments(c)
    \/ StallForm(c, Amounts)
    \/ HandleStallPayment(c)
    \/ Settle(c)

SpecRefetch ==
  /\ InitRefetch
  /\ [][NextRefetch]_vars
  /\ WF_vars(OnSuccess("c1"))
  /\ WF_vars(Refetch("c1"))

----------------------------------------------------------------------------
(* The reconciliation over drawn tables: one client with the page loaded    *)
(* and the stall form open; each initial state draws one table and keeps    *)
(* the others as on the page.                                               *)

\* line items: price 100 rupees with every quantity and margin drawn, and one
\* item of price 0
LineItems ==
  {Item(Some(10000), Some(q), m) : q \in {0, 2}, m \in {Absent, Some(0), Some(50)}}
    \cup {Item(Some(0), Some(2), Some(20))}

Totals == {0, 10000, 16000}

\* the billing table of Len(counts) transactions: transaction i is of stall
\* sids[i] with total tots[i] and holds counts[i] line items, taken in order
\* from flat
BillingTable(sids, tots, counts, flat) ==
  [i \in 1..Len(counts) |->
     LET before == SumSeq(SubSeq(counts, 1, i - 1))
     IN  Tx(sids[i], tots[i], SubSeq(flat, before + 1, before + counts[i]))]

\* dbBilling is any table of at most MaxTx transactions holding at most
\* MaxItems line items
DrawBilling(totals, items) ==
  \E n \in 0..MaxTx :
    \E counts \in [1..n -> 0..MaxItems] :
      /\ SumSeq(counts) <= MaxItems
      /\ \E sids \in [1..n -> StallIds], tots \in [1..n -> totals],
            flat \in [1..SumSeq(counts) -> items] :
           dbBilling = BillingTable(sids, tots, counts, flat)

LedgerAmounts == {-5000, 5000, 16000}

\* expenses: one small, one above everything the page collects
ExpenseAmounts == {5000, 80000}

PaymentRows ==
  {PaymentRow("participant", Some(sid), a) : sid \in StallIds, a \in LedgerAmounts}
    \cup {PaymentRow("other", Absent, a) : a \in ExpenseAmounts}

PaymentTables == UNION {[1..n -> PaymentRows] : n \in 0..MaxLedgerPayments}

Fees == {0, 50000}

StallTables ==
  {<<StallRow("s1", v1, f1), StallRow("s2", v2, f2)>> :
     v1 \in BOOLEAN, v2 \in BOOLEAN, f1 \in Fees, f2 \in Fees}

PagePayments == << PaymentRow("participant", Some("s1"), 5000) >>

RegistrationTypes == {"stall_counter", "employment_booking", "employment_registration"}

RegistrationAmounts == {10000, 30000}

RegistrationRows == {RegistrationRow(t, a) : t \in RegistrationTypes, a \in RegistrationAmounts}

RegistrationTables == UNION {[1..n -> RegistrationRows] : n \in 0..MaxRegistrations}

InitCalc ==
  /\ \/ /\ DrawBilling({16000}, LineItems)
        /\ dbPayments = PagePayments
        /\ dbStalls = PageStalls
        /\ dbRegistrations = PageRegistrations
     \/ /\ DrawBilling(Totals, {Item(Some(10000), Some(2), Some(20))})
        /\ dbPayments = PagePayments
        /\ dbStalls = PageStalls
        /\ dbRegistrations = PageRegistrations
     \/ /\ dbBilling = PageBilling
        /\ dbPayments \in PaymentTables
        /\ dbStalls = PageStalls
        /\ dbRegistrations = PageRegistrations
     \/ /\ dbBilling = PageBilling
        /\ dbPayments = PagePayments
        /\ dbStalls \in StallTables
        /\ dbRegistrations = PageRegistrations
     \/ /\ dbBilling = PageBilling
        /\ dbPayments = PagePayments
        /\ dbStalls = PageStalls
        /\ dbRegistrations \in RegistrationTables
  /\ stalls = [c \in {"c1"} |-> StallsQuery(dbStalls)]
  /\ payments = [c \in {"c1"} |-> Newest(dbPayments)]
  /\ billingTransactions = [c \in {"c1"} |-> Newest(dbBilling)]
  /\ registrations = [c \in {"c1"} |-> Newest(dbRegistrations)]
  /\ paymentsInvalidated = [c \in {"c1"} |-> FALSE]
  /\ showPaymentForm = [c \in {"c1"} |-> TRUE]
  /\ paymentType = [c \in {"c1"} |-> "stall"]
  /\ stallPayment = [c \in {"c1"} |-> [stallId |-> "", amount |-> Absent]]
  /\ otherPayment = [c \in {"c1"} |-> [narration |-> "", amount |-> Absent]]
  /\ mutation = [c \in {"c1"} |-> Idle]
  /\ toast = [c \in {"c1"} |-> ""]
  /\ ElsewhereIdle

NextCalc == \E c \in Clients : \E sid \in StallIds \cup {""} : SelectStall(c, sid)

SpecCalc == InitCalc /\ [][NextCalc]_vars

----------------------------------------------------------------------------
(* Table public.products (src/unnamed/part_001).  cost_price and            *)
(* selling_price are NUMERIC(10,2), counted in paise; event_margin is       *)
(* NUMERIC(5,2), counted in hundredths of a percent.                        *)

\* the accounts page and its tables while another part of the system runs
accountsVars == <<dbStalls, dbBilling, dbPayments, dbRegistrations, queryVars, formVars, mutation, toast>>

\* everything but the products table
notProducts == <<accountsVars, fieldVars, enquiryVars, shareVars, permissionVars>>

AccountsIdle ==
  /\ dbStalls = <<>>
  /\ dbBilling = <<>>
  /\ dbPayments = <<>>
  /\ dbRegistrations = <<>>
  /\ ClientInit({"c1"})

\* n / d rounded to the nearest integer, halves away from zero, for n >= 0:
\* the rounding of a numeric value stored into a column of scale 2
RoundDiv(n, d) == (2 * n + d) \div (2 * d)

\* GENERATED ALWAYS AS (cost_price * (1 + event_margin/100)) STORED: NULL when
\* event_margin is NULL
SellingPrice(cost, margin) ==
  IF margin = Absent THEN Absent
  ELSE Some(RoundDiv(cost * (10000 + margin[1]), 10000))

ProductRow(cost, margin) ==
  [cost_price |-> cost, event_margin |-> margin, selling_price |-> SellingPrice(cost, margin)]

\* the event_margin stored for a written value: the column DEFAULT 20.00 when
\* the statement does not name the column, the value, NULL included, when it
\* does
StoredMargin(given) == IF given.named THEN given.value ELSE Some(2000)

CostPrices == {1, 33, 10000}
Margins == {Absent, Some(0), Some(1550), Some(2000)}
GivenMargins ==
  {[named |-> FALSE, value |-> Absent]} \cup {[named |-> TRUE, value |-> m] : m \in Margins}

\* INSERT INTO products (cost_price [, event_margin])
InsertProduct(cost, given) ==
  /\ Len(dbProducts) < MaxProducts
  /\ dbProducts' = Append(dbProducts, ProductRow(cost, StoredMargin(given)))
  /\ UNCHANGED notProducts

\* UPDATE products SET cost_price = cost WHERE id = row i
UpdateCostPrice(i, cost) ==
  /\ i \in 1..Len(dbProducts)
  /\ dbProducts' = [dbProducts EXCEPT ![i] = ProductRow(cost, dbProducts[i].event_margin)]
  /\ UNCHANGED notProducts

\* UPDATE products SET event_margin = margin WHERE id = row i
UpdateEventMargin(i, margin) ==
  /\ i \in 1..Len(dbProducts)
  /\ dbProducts' = [dbProducts EXCEPT ![i] = ProductRow(dbProducts[i].cost_price, margin)]
  /\ UNCHANGED notProducts

\* DELETE FROM products WHERE id = row i
DeleteProduct(i) ==
  /\ i \in 1..Len(dbProducts)
  /\ dbProducts' = [j \in 1..(Len(dbProducts) - 1) |->
                      IF j < i THEN dbProducts[j] ELSE dbProducts[j + 1]]
  /\ UNCHANGED notProducts

InitProducts ==
  /\ AccountsIdle
  /\ FieldsIdle /\ EnquiryIdle /\ SharesIdle /\ PermissionsIdle
  /\ dbProducts = <<>>

NextProducts ==
  \/ \E cost \in CostPrices, given \in GivenMargins : InsertProduct(cost, given)
  \/ \E i \in 1..MaxProducts, cost \in CostPrices : UpdateCostPrice(i, cost)
  \/ \E i \in 1..MaxProducts, margin \in Margins : UpdateEventMargin(i, margin)
  \/ \E i \in 1..MaxProducts : DeleteProduct(i)

SpecProducts == InitProducts /\ [][NextProducts]_vars

----------------------------------------------------------------------------
(* The public stall enquiry form (src/src/pages/StallEnquiry.tsx) over the  *)
(* tables of src/unnamed/part_000 and the panchayaths and wards of          *)
(* src/unnamed/part_002.  The text of the name and mobile inputs is a       *)
(* sequence of characters; a response is a string.                          *)

\* everything but the enquiry page and the table it writes
notEnquiry == <<accountsVars, productVars, fieldVars, shareVars, permissionVars>>

\* table public.wards: every ward belongs to one panchayath
Wards ==
  << [id |-> "w1", panchayath_id |-> "p1"],
     [id |-> "w2", panchayath_id |-> "p2"],
     [id |-> "w3", panchayath_id |-> "p1"] >>
PanchayathIds == {"p1", "p2"}
WardIds == {Wards[i].id : i \in 1..Len(Wards)}

\* .from('wards').select('*').eq('panchayath_id', p)
WardsOf(p) == SelectSeq(Wards, LAMBDA w : w.panchayath_id = p)

\* String.prototype.trim
RECURSIVE TrimStart(_)
TrimStart(s) == IF s # <<>> /\ Head(s) = " " THEN TrimStart(Tail(s)) ELSE s
RECURSIVE TrimEnd(_)
TrimEnd(s) == IF s # <<>> /\ s[Len(s)] = " " THEN TrimEnd(SubSeq(s, 1, Len(s) - 1)) ELSE s
Trim(s) == TrimEnd(TrimStart(s))

\* a === b of two values that may be undefined or null: a missing value is
\* never equal to a string, and undefined is not null
StrictEq(a, b) == a # Absent /\ b # Absent /\ a[1] = b[1]

\* !v of an optional string: a missing value and '' are both falsy
FalsyText(v) == v = Absent \/ v = Some("")

EnquiryFieldRow(id, type, options, required, active, order, on, value) ==
  [id |-> id, field_type |-> type, options |-> options, is_required |-> required,
   is_active |-> active, display_order |-> order,
   show_conditional_on |-> on, conditional_value |-> value]

\* the form of the page: a radio question asked of everyone, a text question
\* asked when the answer to it is "yes", and a question that was deactivated
PageFields ==
  << EnquiryFieldRow("f1", "radio", <<"yes", "no">>, TRUE, TRUE, 1, Absent, Absent),
     EnquiryFieldRow("f2", "text", <<>>, TRUE, TRUE, 2, Some("f1"), Some("yes")),
     EnquiryFieldRow("f3", "text", <<>>, TRUE, FALSE, 3, Absent, Absent) >>
FieldIds == {PageFields[i].id : i \in 1..Len(PageFields)}

\* what is typed into the inputs
NameTexts == {<<" ">>, <<"A">>}
NineDigits == <<"9", "8", "7", "6", "5", "4", "3", "2", "1">>
MobileTexts == {[i \in 1..10 |-> " "], NineDigits, NineDigits \o <<"0">>}
ResponseTexts == {"", "x"}

\* useState('') ... useState(false), the queries before their first fetch and
\* the idle submitMutation
EnquiryInitial ==
  [name |-> <<>>, mobile |-> <<>>, selectedPanchayath |-> "", selectedWard |-> "",
   responses |-> [f \in FieldIds |-> Absent], isSubmitted |-> FALSE,
   fields |-> <<>>, wards |-> <<>>, status |-> "idle", variables |-> Absent,
   toast |-> ""]

\* .order('display_order'): the rows in ascending display_order, rows of equal
\* display_order in any order
OrderedBy(rows) ==
  LET n == Len(rows)
      perms == {p \in [1..n -> 1..n] : \A i, j \in 1..n : i # j => p[i] # p[j]}
  IN {[i \in 1..n |-> rows[p[i]]] : p \in
        {q \in perms : \A i \in 1..(n - 1) :
                         rows[q[i]].display_order <= rows[q[i + 1]].display_order}}

\* .from('stall_enquiry_fields').select('*').eq('is_active', true)
ActiveFields(table) == SelectSeq(table, LAMBDA f : f.is_active)

\* the fields query of the form
FetchFields ==
  /\ enquiry # Unmounted
  /\ \E data \in OrderedBy(ActiveFields(dbEnquiryFields)) :
       /\ enquiry.fields # data
       /\ enquiry' = [enquiry EXCEPT !.fields = data]
  /\ UNCHANGED <<notEnquiry, dbEnquiries>>

SetName(text) ==
  /\ enquiry # Unmounted /\ ~enquiry.isSubmitted
  /\ enquiry' = [enquiry EXCEPT !.name = text]
  /\ UNCHANGED <<notEnquiry, dbEnquiries>>

SetMobile(text) ==
  /\ enquiry # Unmounted /\ ~enquiry.isSubmitted
  /\ enquiry' = [enquiry EXCEPT !.mobile = text]
  /\ UNCHANGED <<notEnquiry, dbEnquiries>>

\* the panchayath Select leaves the ward chosen before
SetSelectedPanchayath_KeepsWard(p) ==
  /\ enquiry # Unmounted /\ ~enquiry.isSubmitted
  /\ p # enquiry.selectedPanchayath
  /\ enquiry' = [enquiry EXCEPT !.selectedPanchayath = p, !.wards = <<>>]
  /\ UNCHANGED <<notEnquiry, dbEnquiries>>

\* the panchayath Select: setSelectedPanchayath, then the effect on
\* selectedPanchayath clears the ward, and the wards query has a new key with
\* no data yet
SetSelectedPanchayath(p) ==
  /\ enquiry # Unmounted /\ ~enquiry.isSubmitted
  /\ p # enquiry.selectedPanchayath
  /\ enquiry' = [enquiry EXCEPT !.selectedPanchayath = p, !.selectedWard = "",
                                !.wards = <<>>]
  /\ UNCHANGED <<notEnquiry, dbEnquiries>>

\* the wards query, enabled once a panchayath is selected
FetchWards ==
  /\ enquiry # Unmounted
  /\ enquiry.selectedPanchayath # ""
  /\ enquiry.wards # WardsOf(enquiry.selectedPanchayath)
  /\ enquiry' = [enquiry EXCEPT !.wards = WardsOf(enquiry.selectedPanchayath)]
  /\ UNCHANGED <<notEnquiry, dbEnquiries>>

\* the ward Select: disabled without a panchayath, its items are the loaded wards
SetSelectedWard(w) ==
  /\ enquiry # Unmounted /\ ~enquiry.isSubmitted
  /\ enquiry.selectedPanchayath # ""
  /\ \E i \in 1..Len(enquiry.wards) : enquiry.wards[i].id = w
  /\ enquiry' = [enquiry EXCEPT !.selectedWard = w]
  /\ UNCHANGED <<notEnquiry, dbEnquiries>>

\* a field is shown whatever the answers
ShouldShowField_Always(field, responses) == TRUE

ShouldShowField(field, responses) ==
  IF FalsyText(field.show_conditional_on) THEN TRUE
  ELSE StrictEq(responses[field.show_conditional_on[1]], field.conditional_value)

\* the values the rendered control of a field can send
FieldInputs(field) ==
  IF field.field_type \in {"text", "textarea"} THEN ResponseTexts
  ELSE {field.options[i] : i \in 1..Len(field.options)}

\* a rendered field's control: handleResponseChange(field.id, value)
HandleResponseChange(i, value) ==
  /\ enquiry # Unmounted /\ ~enquiry.isSubmitted
  /\ i \in 1..Len(enquiry.fields)
  /\ ShouldShowField(enquiry.fields[i], enquiry.responses)
  /\ value \in FieldInputs(enquiry.fields[i])
  /\ enquiry' = [enquiry EXCEPT !.responses[enquiry.fields[i].id] = Some(value)]
  /\ UNCHANGED <<notEnquiry, dbEnquiries>>

\* the loop of handleSubmit: the first loaded field that is required, shown
\* and unanswered, 0 when there is none
FirstMissing(e) ==
  LET missing == {i \in 1..Len(e.fields) :
                    /\ e.fields[i].is_required
                    /\ ShouldShowField(e.fields[i], e.responses)
                    /\ FalsyText(e.responses[e.fields[i].id])}
  IN IF missing = {} THEN 0 ELSE CHOOSE i \in missing : \A j \in missing : i <= j

\* handleSubmit without the check of the mobile number
SubmitRefusal_NoMobileCheck(e) ==
  IF Trim(e.name) = <<>> THEN "name"
  ELSE IF e.selectedPanchayath = "" THEN "panchayath"
  ELSE IF e.selectedWard = "" THEN "ward"
  ELSE IF FirstMissing(e) # 0 THEN e.fields[FirstMissing(e)].id
  ELSE ""

\* the toast of the first check of handleSubmit that fails, "" when all pass
SubmitRefusal(e) ==
  IF Trim(e.name) = <<>> THEN "name"
  ELSE IF Trim(e.mobile) = <<>> \/ Len(e.mobile) < 10 THEN "mobile"
  ELSE IF e.selectedPanchayath = "" THEN "panchayath"
  ELSE IF e.selectedWard = "" THEN "ward"
  ELSE IF FirstMissing(e) # 0 THEN e.fields[FirstMissing(e)].id
  ELSE ""

\* `v || null` of a Select value
OrNull(v) == IF v = "" THEN Absent ELSE Some(v)

\* the row submitMutation inserts
EnquiryPayload(e) ==
  [name |-> e.name, mobile |-> e.mobile,
   panchayath_id |-> OrNull(e.selectedPanchayath), ward_id |-> OrNull(e.selectedWard),
   responses |-> e.responses]

\* the submit button, disabled while the mutation is pending
HandleSubmit ==
  /\ enquiry # Unmounted /\ ~enquiry.isSubmitted
  /\ enquiry.status # "pending"
  /\ IF SubmitRefusal(enquiry) # ""
       THEN enquiry' = [enquiry EXCEPT !.toast = SubmitRefusal(enquiry)]
       ELSE enquiry' = [enquiry EXCEPT !.status = "pending",
                                       !.variables = Some(EnquiryPayload(enquiry))]
  /\ UNCHANGED <<notEnquiry, dbEnquiries>>

\* the insert succeeds, then onSuccess
SubmitSucceeds ==
  /\ enquiry # Unmounted
  /\ enquiry.status = "pending"
  /\ Len(dbEnquiries) < MaxEnquiries
  /\ dbEnquiries' = Append(dbEnquiries, enquiry.variables[1])
  /\ enquiry' = [enquiry EXCEPT !.status = "idle", !.variables = Absent,
                                !.isSubmitted = TRUE, !.toast = "submitted"]
  /\ UNCHANGED notEnquiry

\* the insert fails, then onError
SubmitFails ==
  /\ enquiry # Unmounted
  /\ enquiry.status = "pending"
  /\ enquiry' = [enquiry EXCEPT !.status = "idle", !.variables = Absent,
                                !.toast = "error"]
  /\ UNCHANGED <<notEnquiry, dbEnquiries>>

\* the button of the success card: window.location.reload()
Reload ==
  /\ enquiry # Unmounted
  /\ enquiry.isSubmitted
  /\ enquiry' = EnquiryInitial
  /\ UNCHANGED <<notEnquiry, dbEnquiries>>

\* One visitor of ward w1 of panchayath p1 filling in the form
InitEnquiry ==
  /\ AccountsIdle
  /\ ProductsIdle /\ SharesIdle /\ PermissionsIdle
  /\ dbEnquiryFields = PageFields
  /\ enquiryAdmin = Unmounted
  /\ dbEnquiries = <<>>
  /\ enquiry = EnquiryInitial

NextEnquiry ==
  \/ FetchFields
  \/ \E text \in NameTexts : SetName(text)
  \/ \E text \in MobileTexts : SetMobile(text)
  \/ SetSelectedPanchayath("p1")
  \/ FetchWards
  \/ SetSelectedWard("w1")
  \/ \E i \in 1..Len(PageFields), value \in ResponseTexts \cup {"yes", "no"} :
       HandleResponseChange(i, value)
  \/ HandleSubmit
  \/ SubmitSucceeds
  \/ SubmitFails
  \/ Reload

SpecEnquiry == InitEnquiry /\ [][NextEnquiry]_vars

----------------------------------------------------------------------------
(* The share form of the survey (SurveyCreate, src/unnamed/part_003) over   *)
(* the table survey_shares of src/unnamed/part_002.                         *)

\* everything but the share form and the table it writes
notShare == <<accountsVars, productVars, fieldVars, enquiryVars, permissionVars, surveyResults>>

\* useState of formData and generatedLink, the wards query before its first
\* fetch and the idle shareMutation
SurveyCreateInitial ==
  [formData |-> [name |-> <<>>, mobile |-> <<>>, panchayath_id |-> "", ward_id |-> ""],
   wards |-> <<>>, status |-> "idle", variables |-> Absent,
   generatedLink |-> Absent, toast |-> ""]

\* handleInputChange of the name and mobile inputs
HandleInputChange(input, text) ==
  /\ surveyCreate # Unmounted
  /\ input \in {"name", "mobile"}
  /\ surveyCreate' = [surveyCreate EXCEPT !.formData[input] = text]
  /\ UNCHANGED <<notShare, dbShares>>

\* the panchayath Select: one setFormData sets the panchayath and clears the
\* ward; the wards query of a new key has no data yet
SetPanchayath(p) ==
  /\ surveyCreate # Unmounted
  /\ surveyCreate' =
       [surveyCreate EXCEPT !.formData.panchayath_id = p, !.formData.ward_id = "",
                            !.wards = IF p = surveyCreate.formData.panchayath_id
                                        THEN surveyCreate.wards ELSE <<>>]
  /\ UNCHANGED <<notShare, dbShares>>

\* the wards query, enabled once a panchayath is selected
FetchShareWards ==
  /\ surveyCreate # Unmounted
  /\ surveyCreate.formData.panchayath_id # ""
  /\ surveyCreate.wards # WardsOf(surveyCreate.formData.panchayath_id)
  /\ surveyCreate' = [surveyCreate EXCEPT !.wards = WardsOf(surveyCreate.formData.panchayath_id)]
  /\ UNCHANGED <<notShare, dbShares>>

\* the ward Select: disabled without a panchayath, its items are the loaded wards
SetWard(w) ==
  /\ surveyCreate # Unmounted
  /\ surveyCreate.formData.panchayath_id # ""
  /\ \E i \in 1..Len(surveyCreate.wards) : surveyCreate.wards[i].id = w
  /\ surveyCreate' = [surveyCreate EXCEPT !.formData.ward_id = w]
  /\ UNCHANGED <<notShare, dbShares>>

\* the row shareMutation inserts
SharePayload(f) ==
  [name |-> Trim(f.name), mobile |-> Trim(f.mobile),
   panchayath_id |-> f.panchayath_id, ward_id |-> f.ward_id]

\* the query parameters of the link: the name and the selected panchayath
\* and ward as found in the loaded lists
LinkOf(s) ==
  [name |-> Trim(s.formData.name), panchayath |-> s.formData.panchayath_id,
   ward |-> IF \E i \in 1..Len(s.wards) : s.wards[i].id = s.formData.ward_id
              THEN s.formData.ward_id ELSE ""]

\* generateLink up to its await: the button is disabled while the mutation
\* is pending
GenerateLink ==
  /\ surveyCreate # Unmounted
  /\ surveyCreate.status # "pending"
  /\ LET f == surveyCreate.formData
     IN IF f.name = <<>> \/ f.mobile = <<>> \/ f.panchayath_id = "" \/ f.ward_id = ""
          THEN surveyCreate' = [surveyCreate EXCEPT !.toast = "Missing Information"]
          ELSE surveyCreate' =
                 [surveyCreate EXCEPT !.status = "pending",
                                      !.variables = Some([row |-> SharePayload(f),
                                                          link |-> LinkOf(surveyCreate)])]
  /\ UNCHANGED <<notShare, dbShares>>

\* the insert succeeds and generateLink resumes
ShareSucceeds ==
  /\ surveyCreate # Unmounted
  /\ surveyCreate.status = "pending"
  /\ Len(dbShares) < MaxShares
  /\ dbShares' = Append(dbShares, surveyCreate.variables[1].row)
  /\ surveyCreate' = [surveyCreate EXCEPT !.status = "idle", !.variables = Absent,
                                          !.generatedLink = Some(surveyCreate.variables[1].link),
                                          !.toast = "Link Generated!"]
  /\ UNCHANGED notShare

\* the insert fails: the error is caught and logged, and generateLink resumes
ShareFails ==
  /\ surveyCreate # Unmounted
  /\ surveyCreate.status = "pending"
  /\ surveyCreate' = [surveyCreate EXCEPT !.status = "idle", !.variables = Absent,
                                          !.generatedLink = Some(surveyCreate.variables[1].link),
                                          !.toast = "Link Generated!"]
  /\ UNCHANGED <<notShare, dbShares>>

----------------------------------------------------------------------------
(* A visitor choosing panchayath and ward on one of the two forms; the      *)
(* enquiry form has no configured fields.                                   *)

InitWard ==
  /\ AccountsIdle
  /\ ProductsIdle /\ FieldsIdle /\ PermissionsIdle
  /\ dbEnquiries = <<>>
  /\ dbShares = <<>>
  /\ surveyResults = Unmounted
  /\ \/ enquiry = EnquiryInitial /\ surveyCreate = Unmounted
     \/ enquiry = Unmounted /\ surveyCreate = SurveyCreateInitial

NextWard ==
  \/ SetName(<<"A">>)
  \/ \E text \in MobileTexts : SetMobile(text)
  \/ \E p \in PanchayathIds : SetSelectedPanchayath(p)
  \/ FetchWards
  \/ \E w \in WardIds : SetSelectedWard(w)
  \/ HandleSubmit
  \/ SubmitSucceeds
  \/ SubmitFails
  \/ Reload
  \/ \E input \in {"name", "mobile"} : HandleInputChange(input, <<"A">>)
  \/ \E p \in PanchayathIds : SetPanchayath(p)
  \/ FetchShareWards
  \/ \E w \in WardIds : SetWard(w)
  \/ GenerateLink
  \/ ShareSucceeds
  \/ ShareFails

SpecWard == InitWard /\ [][NextWard]_vars

----------------------------------------------------------------------------
(* The permission page (src/src/pages/PermissionManagement.tsx) over the    *)
(* tables admins and admin_permissions.  The page reads the session from    *)
(* useAdminAuth: whether it is still loading, whether there is an admin     *)
(* and what isSuperAdmin() answers.  Two of the modules of MODULES are      *)
(* kept.                                                                    *)

\* everything but the permission page and the table it writes
notPermissions == <<accountsVars, productVars, fieldVars, enquiryVars, shareVars>>

Modules == <<"billing", "team">>

\* table admins
Admins ==
  << [id |-> "a1", role |-> "admin"],
     [id |-> "a2", role |-> "admin"],
     [id |-> "s1", role |-> "super_admin"] >>

PermissionRow(a, m, r, c, u, d) ==
  [admin_id |-> a, module |-> m,
   can_read |-> r, can_create |-> c, can_update |-> u, can_delete |-> d]

\* table admin_permissions when the page is opened
StoredPermissions ==
  << PermissionRow("a1", "billing", TRUE, FALSE, FALSE, FALSE),
     PermissionRow("a2", "team", TRUE, TRUE, TRUE, TRUE) >>

\* .from('admins').select('id, username, role').eq('role', 'admin')
AdminAccounts == SelectSeq(Admins, LAMBDA a : a.role = "admin")

\* .from('admin_permissions').select('*').eq('admin_id', a)
PermissionsOf(table, a) == SelectSeq(table, LAMBDA p : p.admin_id = a)

\* .delete().eq('admin_id', a)
WithoutAdmin(table, a) == SelectSeq(table, LAMBDA p : p.admin_id # a)

\* existingPermissions?.find((p) => p.module === m): the first row of the module
FindModule(existing, m) ==
  IF existing = Absent THEN Absent
  ELSE LET found == SelectSeq(existing[1], LAMBDA p : p.module = m)
       IN IF found = <<>> THEN Absent ELSE Some(Head(found))

\* the effect on selectedAdminId and existingPermissions: one entry per
\* module, the flags of the existing row or false
NewPermissions(a, existing) ==
  [i \in 1..Len(Modules) |->
     LET row == FindModule(existing, Modules[i])
     IN IF row = Absent
          THEN PermissionRow(a, Modules[i], FALSE, FALSE, FALSE, FALSE)
          ELSE PermissionRow(a, Modules[i], row[1].can_read, row[1].can_create,
                             row[1].can_update, row[1].can_delete)]

\* the rows savePermissions inserts: the entries with a flag set
ToInsert(permissions) ==
  SelectSeq(permissions, LAMBDA p : p.can_read \/ p.can_create \/ p.can_update \/ p.can_delete)

\* useState of the page, the queries before their first fetch, the idle
\* mutation, and the session as useAdminAuth reports it
PermissionPageInitial(present, super) ==
  [authLoading |-> TRUE, admin |-> present, isSuperAdmin |-> super,
   admins |-> Absent, selectedAdminId |-> "",
   existingPermissions |-> Absent, invalidated |-> FALSE,
   permissions |-> <<>>, hasChanges |-> FALSE,
   status |-> "idle", variables |-> Absent, toast |-> ""]

\* the session is resolved; the auth effect sends everyone but a super admin
\* to /admin, which unmounts the page
AuthResolves(present, super) ==
  /\ permissionPage # Unmounted
  /\ permissionPage.authLoading
  /\ permissionPage.status = "idle"
  /\ permissionPage' =
       IF present /\ super
         THEN [permissionPage EXCEPT !.authLoading = FALSE, !.admin = present,
                                     !.isSuperAdmin = super]
         ELSE Unmounted
  /\ UNCHANGED <<notPermissions, dbPermissions>>

\* the admins query runs whoever is signed in
FetchAdmins_Always ==
  /\ permissionPage # Unmounted
  /\ permissionPage.admins = Absent
  /\ permissionPage' = [permissionPage EXCEPT !.admins = Some(AdminAccounts)]
  /\ UNCHANGED <<notPermissions, dbPermissions>>

\* the admins query, enabled: !!admin && isSuperAdmin()
FetchAdmins ==
  /\ permissionPage # Unmounted
  /\ permissionPage.admin /\ permissionPage.isSuperAdmin
  /\ permissionPage.admins = Absent
  /\ permissionPage' = [permissionPage EXCEPT !.admins = Some(AdminAccounts)]
  /\ UNCHANGED <<notPermissions, dbPermissions>>

\* the page is past `if (authLoading || adminsLoading)`: the session is
\* resolved and the enabled admins query has its data
PageShown(pg) ==
  /\ ~pg.authLoading
  /\ ~(pg.admin /\ pg.isSuperAdmin /\ pg.admins = Absent)

\* the admin Select: setSelectedAdminId, then the effect builds the table
\* from a query of a new key, which has no data yet
SetSelectedAdminId(a) ==
  /\ permissionPage # Unmounted
  /\ PageShown(permissionPage)
  /\ permissionPage.admins # Absent
  /\ \E i \in 1..Len(permissionPage.admins[1]) : permissionPage.admins[1][i].id = a
  /\ a # permissionPage.selectedAdminId
  /\ permissionPage' =
       [permissionPage EXCEPT !.selectedAdminId = a, !.existingPermissions = Absent,
                              !.invalidated = FALSE,
                              !.permissions = NewPermissions(a, Absent),
                              !.hasChanges = FALSE]
  /\ UNCHANGED <<notPermissions, dbPermissions>>

\* the permissions query of the selected admin, first fetch or refetch after
\* an invalidation; then the effect rebuilds the table from its data
FetchPermissions ==
  /\ permissionPage # Unmounted
  /\ permissionPage.selectedAdminId # ""
  /\ permissionPage.existingPermissions = Absent \/ permissionPage.invalidated
  /\ LET data == Some(PermissionsOf(dbPermissions, permissionPage.selectedAdminId))
     IN permissionPage' =
          [permissionPage EXCEPT !.existingPermissions = data, !.invalidated = FALSE,
                                 !.permissions = NewPermissions(permissionPage.selectedAdminId, data),
                                 !.hasChanges = FALSE]
  /\ UNCHANGED <<notPermissions, dbPermissions>>

\* the table is rendered: an admin is selected and its permissions are loaded
TableShown(pg) == PageShown(pg) /\ pg.selectedAdminId # "" /\ pg.existingPermissions # Absent

UpdatePermission(i, field, value) ==
  /\ permissionPage # Unmounted
  /\ TableShown(permissionPage)
  /\ i \in 1..Len(permissionPage.permissions)
  /\ permissionPage' = [permissionPage EXCEPT !.permissions[i][field] = value,
                                              !.hasChanges = TRUE]
  /\ UNCHANGED <<notPermissions, dbPermissions>>

ToggleAll(i, enabled) ==
  /\ permissionPage # Unmounted
  /\ TableShown(permissionPage)
  /\ i \in 1..Len(permissionPage.permissions)
  /\ permissionPage' =
       [permissionPage EXCEPT !.permissions[i].can_read = enabled,
                              !.permissions[i].can_create = enabled,
                              !.permissions[i].can_update = enabled,
                              !.permissions[i].can_delete = enabled,
                              !.hasChanges = TRUE]
  /\ UNCHANGED <<notPermissions, dbPermissions>>

\* the Save Permissions button, disabled={!hasChanges || isPending}:
\* savePermissions.mutate() issues the delete for the admin and the table of
\* this render
ClickSave ==
  /\ permissionPage # Unmounted
  /\ TableShown(permissionPage)
  /\ permissionPage.hasChanges
  /\ permissionPage.status = "idle"
  /\ permissionPage' =
       [permissionPage EXCEPT !.status = "deleting",
                              !.variables = Some([admin_id |-> permissionPage.selectedAdminId,
                                                  permissions |-> permissionPage.permissions])]
  /\ UNCHANGED <<notPermissions, dbPermissions>>

\* onSuccess: invalidate the permissions query of the selected admin, toast,
\* setHasChanges(false)
SaveSucceeded(pg) ==
  [pg EXCEPT !.status = "idle", !.variables = Absent,
             !.invalidated = (pg.existingPermissions # Absent),
             !.toast = "Success", !.hasChanges = FALSE]

\* the delete returns, with or without an error, which is not looked at;
\* with nothing to insert the mutation is then done
DeleteReturns(ok) ==
  /\ permissionPage # Unmounted
  /\ permissionPage.status = "deleting"
  /\ dbPermissions' = IF ok THEN WithoutAdmin(dbPermissions, permissionPage.variables[1].admin_id)
                            ELSE dbPermissions
  /\ permissionPage' =
       IF ToInsert(permissionPage.variables[1].permissions) = <<>>
         THEN SaveSucceeded(permissionPage)
         ELSE [permissionPage EXCEPT !.status = "inserting"]
  /\ UNCHANGED notPermissions

\* the insert of all rows succeeds, then onSuccess
InsertPermissionsSucceeds ==
  /\ permissionPage # Unmounted
  /\ permissionPage.status = "inserting"
  /\ Len(dbPermissions) + Len(ToInsert(permissionPage.variables[1].permissions)) <= MaxPermissionRows
  /\ dbPermissions' = dbPermissions \o ToInsert(permissionPage.variables[1].permissions)
  /\ permissionPage' = SaveSucceeded(permissionPage)
  /\ UNCHANGED notPermissions

\* the insert fails: throw error, then onError
InsertPermissionsFails ==
  /\ permissionPage # Unmounted
  /\ permissionPage.status = "inserting"
  /\ permissionPage' = [permissionPage EXCEPT !.status = "idle", !.variables = Absent,
                                              !.toast = "Error"]
  /\ UNCHANGED <<notPermissions, dbPermissions>>

InitPermissions ==
  /\ AccountsIdle
  /\ ProductsIdle /\ FieldsIdle /\ EnquiryIdle /\ SharesIdle
  /\ dbPermissions = StoredPermissions
  /\ \E present \in BOOLEAN, super \in BOOLEAN :
       permissionPage = PermissionPageInitial(present, super)

NextPermissions ==
  \/ \E present \in BOOLEAN, super \in BOOLEAN : AuthResolves(present, super)
  \/ FetchAdmins
  \/ \E a \in {"a1", "a2", "s1"} : SetSelectedAdminId(a)
  \/ FetchPermissions
  \/ UpdatePermission(1, "can_read", TRUE)
  \/ UpdatePermission(1, "can_read", FALSE)
  \/ \E enabled \in BOOLEAN : ToggleAll(2, enabled)
  \/ ClickSave
  \/ \E ok \in BOOLEAN : DeleteReturns(ok)
  \/ InsertPermissionsSucceeds
  \/ InsertPermissionsFails

SpecPermissions == InitPermissions /\ [][NextPermissions]_vars

----------------------------------------------------------------------------
(* The reordering of the enquiry fields on the admin page                   *)
(* (src/src/pages/admin/StallEnquiryAdmin.tsx), for a signed-in admin: the  *)
(* fields query and reorderMutation.  Every mutate() is one update request  *)
(* in flight; the requests settle in any order.                             *)

\* everything but the admin page and the table it writes
notFields == <<accountsVars, productVars, enquiryVars, shareVars, permissionVars>>

\* the fields query before its first fetch and no request in flight
EnquiryAdminInitial == [fields |-> Absent, invalidated |-> FALSE, requests |-> <<>>]

\* `data: fields = []`
AdminFields == IF enquiryAdmin.fields = Absent THEN <<>> ELSE enquiryAdmin.fields[1]

\* .from('stall_enquiry_fields').select('*').order('display_order'), first
\* fetch or refetch after an invalidation
FetchAdminFields ==
  /\ enquiryAdmin # Unmounted
  /\ enquiryAdmin.fields = Absent \/ enquiryAdmin.invalidated
  /\ \E data \in OrderedBy(dbEnquiryFields) :
       enquiryAdmin' = [enquiryAdmin EXCEPT !.fields = Some(data), !.invalidated = FALSE]
  /\ UNCHANGED <<notFields, dbEnquiryFields>>

\* the two reorderMutation.mutate() calls of a move of field a next to field b
SwapRequests(a, b) ==
  << [id |-> a.id, newOrder |-> b.display_order],
     [id |-> b.id, newOrder |-> a.display_order] >>

\* handleMoveUp(field, index): i is index + 1
HandleMoveUp(i) ==
  /\ enquiryAdmin # Unmounted
  /\ i \in 1..Len(AdminFields)
  /\ Len(enquiryAdmin.requests) + 2 <= MaxInFlight
  /\ IF i = 1
       THEN UNCHANGED enquiryAdmin
       ELSE enquiryAdmin' =
              [enquiryAdmin EXCEPT !.requests = @ \o SwapRequests(AdminFields[i], AdminFields[i - 1])]
  /\ UNCHANGED <<notFields, dbEnquiryFields>>

\* handleMoveDown(field, index): i is index + 1
HandleMoveDown(i) ==
  /\ enquiryAdmin # Unmounted
  /\ i \in 1..Len(AdminFields)
  /\ Len(enquiryAdmin.requests) + 2 <= MaxInFlight
  /\ IF i = Len(AdminFields)
       THEN UNCHANGED enquiryAdmin
       ELSE enquiryAdmin' =
              [enquiryAdmin EXCEPT !.requests = @ \o SwapRequests(AdminFields[i], AdminFields[i + 1])]
  /\ UNCHANGED <<notFields, dbEnquiryFields>>

\* the sequence s without its k-th element
Without(s, k) == [j \in 1..(Len(s) - 1) |-> IF j < k THEN s[j] ELSE s[j + 1]]

\* .update({ display_order: newOrder }).eq('id', id)
SetDisplayOrder(table, id, newOrder) ==
  [j \in 1..Len(table) |->
     IF table[j].id = id THEN [table[j] EXCEPT !.display_order = newOrder] ELSE table[j]]

\* request k succeeds, then onSuccess invalidates the fields query
ReorderSucceeds(k) ==
  /\ enquiryAdmin # Unmounted
  /\ k \in 1..Len(enquiryAdmin.requests)
  /\ dbEnquiryFields' = SetDisplayOrder(dbEnquiryFields, enquiryAdmin.requests[k].id,
                                        enquiryAdmin.requests[k].newOrder)
  /\ enquiryAdmin' = [enquiryAdmin EXCEPT !.requests = Without(@, k),
                                          !.invalidated = (enquiryAdmin.fields # Absent)]
  /\ UNCHANGED notFields

\* request k fails: the mutation has no onError
ReorderFails(k) ==
  /\ enquiryAdmin # Unmounted
  /\ k \in 1..Len(enquiryAdmin.requests)
  /\ enquiryAdmin' = [enquiryAdmin EXCEPT !.requests = Without(@, k)]
  /\ UNCHANGED <<notFields, dbEnquiryFields>>

InitReorder ==
  /\ AccountsIdle
  /\ ProductsIdle /\ EnquiryIdle /\ SharesIdle /\ PermissionsIdle
  /\ dbEnquiryFields = PageFields
  /\ enquiryAdmin = EnquiryAdminInitial

NextReorder ==
  \/ FetchAdminFields
  \/ \E i \in 1..Len(PageFields) : HandleMoveUp(i)
  \/ \E i \in 1..Len(PageFields) : HandleMoveDown(i)
  \/ \E k \in 1..MaxInFlight : ReorderSucceeds(k)
  \/ \E k \in 1..MaxInFlight : ReorderFails(k)

SpecReorder == InitReorder /\ [][NextReorder]_vars

----------------------------------------------------------------------------
(* The survey results (src/src/components/admin/survey/SurveyResults.tsx)   *)
(* over the wards and the survey_shares written so far.                     *)

\* everything but the results component
notResults == <<accountsVars, productVars, fieldVars, enquiryVars, permissionVars,
                dbShares, surveyCreate>>

\* useState('') and the two queries before their first fetch
SurveyResultsInitial == [selectedPanchayath |-> "", wards |-> Absent, shareCounts |-> Absent]

\* the panchayath Select: both queries get a new key, without data yet
SetResultsPanchayath(p) ==
  /\ surveyResults # Unmounted
  /\ p # surveyResults.selectedPanchayath
  /\ surveyResults' = [selectedPanchayath |-> p, wards |-> Absent, shareCounts |-> Absent]
  /\ UNCHANGED notResults

\* the wards query
FetchResultWards ==
  /\ surveyResults # Unmounted
  /\ surveyResults.selectedPanchayath # ""
  /\ surveyResults.wards = Absent
  /\ surveyResults' = [surveyResults EXCEPT !.wards = Some(WardsOf(surveyResults.selectedPanchayath))]
  /\ UNCHANGED notResults

\* counts[share.ward_id] = (counts[share.ward_id] || 0) + 1 over the rows,
\* then Object.entries: one entry per ward_id, in the order of first
\* appearance
RECURSIVE CountShares(_, _)
CountShares(rows, counts) ==
  IF rows = <<>> THEN counts
  ELSE LET w == Head(rows).ward_id
           at == {i \in 1..Len(counts) : counts[i].ward_id = w}
       IN CountShares(Tail(rows),
            IF at = {} THEN Append(counts, [ward_id |-> w, count |-> 1])
            ELSE [i \in 1..Len(counts) |->
                    IF i \in at THEN [counts[i] EXCEPT !.count = @ + 1] ELSE counts[i]])

\* .from('survey_shares').select('ward_id').eq('panchayath_id', p)
SharesOf(table, p) == SelectSeq(table, LAMBDA s : s.panchayath_id = p)

\* the shareCounts query
FetchShareCounts ==
  /\ surveyResults # Unmounted
  /\ surveyResults.selectedPanchayath # ""
  /\ surveyResults.shareCounts = Absent
  /\ surveyResults' =
       [surveyResults EXCEPT !.shareCounts =
          Some(CountShares(SharesOf(dbShares, surveyResults.selectedPanchayath), <<>>))]
  /\ UNCHANGED notResults

\* shareCounts?.find(sc => sc.ward_id === wardId)?.count || 0
GetShareCount(r, wardId) ==
  IF r.shareCounts = Absent THEN 0
  ELSE LET found == SelectSeq(r.shareCounts[1], LAMBDA sc : sc.ward_id = wardId)
       IN IF found = <<>> THEN 0 ELSE Head(found).count

\* shareCounts?.reduce((acc, sc) => acc + sc.count, 0) || 0
TotalShares(r) ==
  IF r.shareCounts = Absent THEN 0
  ELSE SumSeq([i \in 1..Len(r.shareCounts[1]) |-> r.shareCounts[1][i].count])

\* shareCounts?.length || 0
WardsWithShares(r) == IF r.shareCounts = Absent THEN 0 ELSE Len(r.shareCounts[1])

\* (wards?.length || 0) - wardsWithShares
WardsWithoutShares(r) == (IF r.wards = Absent THEN 0 ELSE Len(r.wards[1])) - WardsWithShares(r)

\* the shares the visitors have written
ShareRows == {[name |-> <<"A">>, mobile |-> NineDigits \o <<"0">>,
               panchayath_id |-> Wards[i].panchayath_id, ward_id |-> Wards[i].id] :
                i \in 1..Len(Wards)}
ShareTables == UNION {[1..n -> ShareRows] : n \in 0..MaxShareRows}

InitResults ==
  /\ AccountsIdle
  /\ ProductsIdle /\ FieldsIdle /\ EnquiryIdle /\ PermissionsIdle
  /\ dbShares \in ShareTables
  /\ surveyCreate = Unmounted
  /\ surveyResults = SurveyResultsInitial

NextResults ==
  \/ \E p \in PanchayathIds : SetResultsPanchayath(p)
  \/ FetchResultWards
  \/ FetchShareCounts

SpecResults == InitResults /\ [][NextResults]_vars

----------------------------------------------------------------------------
(* Properties *)

\* the sum of f[i] over the indices i of S
RECURSIVE SumIdx(_, _)
SumIdx(f, S) ==
  IF S = {} THEN 0
  ELSE LET i == CHOOSE j \in S : TRUE IN f[i] + SumIdx(f, S \ {i})

Selected(c) == stallPayment[c].stallId # ""
Details(c) == SelectedStallDetails(c)[1]

\* the line items of the loaded transactions of the stall client c selected
SelectedItems(c) ==
  UNION { {billingTransactions[c][i].items[j] : j \in 1..Len(billingTransactions[c][i].items)} :
          i \in {k \in 1..Len(billingTransactions[c]) :
                   billingTransactions[c][k].stall_id = stallPayment[c].stallId} }

Overpaying(c) ==
  /\ Selected(c)
  /\ stallPayment[c].amount # Absent
  /\ stallPayment[c].amount[1] > Details(c).remainingBalance

\* C1: a call of handleStallPayment with an amount greater than the remaining
\* balance of the selected stall, as computed from the loaded snapshot, writes
\* no payment row, starts no mutation and shows 'Amount exceeds remaining
\* balance'.
C1_OverpaymentRejected ==
  [][\A c \in Clients :
       (HandleStallPayment(c) /\ Overpaying(c)) =>
         /\ dbPayments' = dbPayments
         /\ mutation' = mutation
         /\ toast'[c] = "Amount exceeds remaining balance"]_vars

C1_Witness == \E c \in Clients : toast[c] = "Amount exceeds remaining balance"

\* C2: for every stall, the participant payments recorded for it never sum to
\* more than its bill balance (the billing table does not change).
C2_PaidWithinBillBalance ==
  \A sid \in StallIds : AlreadyPaid(dbPayments, sid) <= BillBalance(dbBilling, sid)

\* the margin and the balance of a line item as the claims state them
StatedMargin(item) == IF item.event_margin = Absent THEN 20 ELSE item.event_margin[1]
StatedItemBalance(item) ==
  (item.price[1] * item.quantity[1] * (100 - StatedMargin(item))) \div 100
StatedTxBalance(tx) ==
  SumIdx([j \in 1..Len(tx.items) |-> StatedItemBalance(tx.items[j])], 1..Len(tx.items))
StatedBillBalance(bts, sid) ==
  SumIdx([i \in 1..Len(bts) |-> StatedTxBalance(bts[i])],
         {i \in 1..Len(bts) : bts[i].stall_id = sid})

\* C3: the bill balance of the selected stall is the sum over every line item
\* of every transaction of the stall of price x quantity x (1 - margin/100),
\* each item with its own margin.
C3_BillBalancePerItemMargin ==
  \A c \in Clients :
    Selected(c) =>
      Details(c).billBalance = StatedBillBalance(billingTransactions[c], stallPayment[c].stallId)

\* C4: the margin applied to a line item is its stored margin, 0 included, and
\* 20 only when no margin is stored.
C4_OwnMarginApplied ==
  \A c \in Clients :
    Selected(c) => \A item \in SelectedItems(c) : Commission(item) = StatedMargin(item)

\* C5: the total of a line item is price x quantity, quantity 0 and price 0
\* included.
C5_ItemTotalIsPriceTimesQuantity ==
  \A c \in Clients :
    Selected(c) =>
      \A item \in SelectedItems(c) : ItemTotal(item) = item.price[1] * item.quantity[1]

\* C6: the remaining balance is max(0, bill balance - already paid): never
\* negative, 0 whenever already paid >= bill balance, the difference otherwise.
C6_RemainingIsFlooredDifference ==
  \A c \in Clients :
    Selected(c) =>
      LET d == Details(c)
      IN  /\ d.remainingBalance >= 0
          /\ d.alreadyPaid >= d.billBalance => d.remainingBalance = 0
          /\ d.alreadyPaid < d.billBalance => d.remainingBalance = d.billBalance - d.alreadyPaid

C6_Witness ==
  \E c \in Clients :
    /\ Selected(c)
    /\ Details(c).billBalance > 0
    /\ Details(c).alreadyPaid > Details(c).billBalance

\* C7: recording a participant payment never raises the remaining balance of
\* any stall.
C7_PaymentNeverRaisesRemaining ==
  [][\A sid \in StallIds :
       (\E c \in Clients : InsertPayment(c) /\ mutation[c].payload[1].payment_type = "participant")
         => RemainingBalance(dbBilling, dbPayments', sid)
              <= RemainingBalance(dbBilling, dbPayments, sid)]_vars

\* C8: already paid is the sum of amount_paid over exactly the loaded payments
\* of type 'participant' whose stall_id is the selected stall.
C8_AlreadyPaidIsOwnParticipantSum ==
  \A c \in Clients :
    Selected(c) =>
      Details(c).alreadyPaid =
        SumIdx([i \in 1..Len(payments[c]) |-> payments[c][i].amount_paid[1]],
               {i \in 1..Len(payments[c]) :
                  /\ payments[c][i].payment_type = "participant"
                  /\ payments[c][i].stall_id = Some(stallPayment[c].stallId)})

C8_Witness ==
  \E c \in Clients :
    /\ Selected(c)
    /\ \E i, j \in 1..Len(payments[c]) :
         /\ payments[c][i].payment_type = "participant"
         /\ payments[c][i].stall_id = Some(stallPayment[c].stallId)
         /\ payments[c][j].payment_type = "participant"
         /\ payments[c][j].stall_id # Some(stallPayment[c].stallId)
    /\ Details(c).alreadyPaid # 0

\* C9: billed amount is the sum of the stored total over the loaded billing
\* transactions of the selected stall, whatever their line items.
C9_BilledAmountIsOwnTotalSum ==
  \A c \in Clients :
    Selected(c) =>
      Details(c).billedAmount =
        SumIdx([i \in 1..Len(billingTransactions[c]) |-> billingTransactions[c][i].total[1]],
               {i \in 1..Len(billingTransactions[c]) :
                  billingTransactions[c][i].stall_id = stallPayment[c].stallId})

C9_Witness ==
  \E c \in Clients :
    /\ Selected(c)
    /\ \E i, j \in 1..Len(billingTransactions[c]) :
         /\ billingTransactions[c][i].stall_id = stallPayment[c].stallId
         /\ billingTransactions[c][j].stall_id # stallPayment[c].stallId
         /\ billingTransactions[c][j].total # Some(0)
    /\ Details(c).billedAmount # Details(c).billBalance
    /\ Details(c).billedAmount > 0

\* C10: the stall booking fees are the sum of registration_fee over every
\* stall in storage, verified or not.
C10_BookingFeesOverAllStalls ==
  \A c \in Clients :
    StallBookingFees(c) =
      SumIdx([i \in 1..Len(dbStalls) |-> dbStalls[i].registration_fee[1]], 1..Len(dbStalls))

\* the rows recorded in storage since client c loaded the payments
RecordedSince(c) == SubSeq(dbPayments, Len(payments[c]) + 1, Len(dbPayments))

\* the sum of amount_paid over the rows of ps of type 'other'
StatedOtherSum(ps) ==
  SumIdx([i \in 1..Len(ps) |-> ps[i].amount_paid[1]],
         {i \in 1..Len(ps) : ps[i].payment_type = "other"})

StatedRegistrationSum(c, types) ==
  SumIdx([i \in 1..Len(registrations[c]) |-> registrations[c][i].amount[1]],
         {i \in 1..Len(registrations[c]) : registrations[c][i].registration_type \in types})

\* C12: total collected is total billing collected + total registration
\* collected + stall booking fees, where total billing collected is the sum
\* of total over all loaded billing transactions, of whichever stall.
C12_TotalCollectedIsSumOfThree ==
  \A c \in Clients :
    /\ TotalBillingCollected(c) =
         SumIdx([i \in 1..Len(billingTransactions[c]) |-> billingTransactions[c][i].total[1]],
                1..Len(billingTransactions[c]))
    /\ TotalCollected(c) =
         TotalBillingCollected(c)
           + StatedRegistrationSum(c, {"employment_booking", "employment_registration"})
           + SumIdx([i \in 1..Len(stalls[c]) |-> stalls[c][i].registration_fee[1]],
                    1..Len(stalls[c]))

C12_Witness ==
  \E c \in Clients :
    /\ TotalBillingCollected(c) > 0
    /\ TotalRegistrationCollected(c) > 0
    /\ StallBookingFees(c) > 0
    /\ Len(registrations[c]) = MaxRegistrations

\* C13: total registration collected is the sum of amount over the
\* registrations of type employment_booking or employment_registration, it
\* equals empBookingTotal + empRegTotal, and the registrations of type
\* stall_counter add nothing to it or to total collected.
C13_OnlyEmploymentRegistrationsCount ==
  \A c \in Clients :
    /\ TotalRegistrationCollected(c) =
         StatedRegistrationSum(c, {"employment_booking", "employment_registration"})
    /\ TotalRegistrationCollected(c) = EmpBookingTotal(c) + EmpRegTotal(c)
    /\ TotalCollected(c) - TotalBillingCollected(c) - StallBookingFees(c) =
         StatedRegistrationSum(c, RegistrationTypes) - StatedRegistrationSum(c, {"stall_counter"})

C13_Witness ==
  \E c \in Clients :
    /\ StatedRegistrationSum(c, {"stall_counter"}) > 0
    /\ EmpBookingTotal(c) > 0
    /\ EmpRegTotal(c) > 0

\* C14: cash balance is total collected - total paid, without a floor: it is
\* negative whenever the 'other' payments exceed the collections.
C14_CashBalanceIsUnflooredDifference ==
  \A c \in Clients :
    /\ CashBalance(c) = TotalCollected(c) - StatedOtherSum(payments[c])
    /\ StatedOtherSum(payments[c]) > TotalCollected(c) => CashBalance(c) < 0

C14_Witness ==
  \E c \in Clients :
    /\ TotalCollected(c) > 0
    /\ StatedOtherSum(payments[c]) > TotalCollected(c)

\* the insert of the payment submitted by client c succeeds in this step
InsertSucceeds(c) == mutation[c].status = "pending" /\ mutation'[c].status = "inserted"

\* C15: the recorded payments only grow: every step keeps the rows already
\* recorded as they are, a step in which the insert of a submitted payment
\* succeeds adds exactly that one row, and every other step (a rejected
\* submission, a failed insert, any other operation of the page) adds none.
C15_PaymentsOnlyGrow ==
  [][/\ Len(dbPayments') >= Len(dbPayments)
     /\ SubSeq(dbPayments', 1, Len(dbPayments)) = dbPayments
     /\ \A c \in Clients :
          InsertSucceeds(c) => dbPayments' = Append(dbPayments, mutation[c].payload[1])
     /\ (\A c \in Clients : ~InsertSucceeds(c)) => dbPayments' = dbPayments]_vars

C15_Witness ==
  /\ Len(dbPayments) = MaxPayments
  /\ dbPayments[1].payment_type # dbPayments[MaxPayments].payment_type
  /\ \E c \in Clients : toast[c] = "Failed to record payment"

\* the loaded payments of client c hold the n oldest rows of storage, and the
\* already paid of every stall is the sum over the rows loaded
LoadedUpTo(c, n) ==
  /\ Len(payments[c]) >= n
  /\ \A i \in 1..Len(payments[c]) : payments[c][Len(payments[c]) + 1 - i] = dbPayments[i]
  /\ \A sid \in StallIds :
       AlreadyPaid(payments[c], sid) =
         SumIdx([i \in 1..Len(dbPayments) |-> dbPayments[i].amount_paid[1]],
                {i \in 1..Len(payments[c]) :
                   /\ dbPayments[i].payment_type = "participant"
                   /\ dbPayments[i].stall_id = Some(sid)})

\* C16: once the insert of a client's payment has succeeded, with n rows then
\* in storage, the payments loaded by that client eventually hold these n
\* rows, the new one included, and hold them from then on, so the already
\* paid and the remaining balance it computes count the new payment.
C16_WriteIsEventuallyLoaded ==
  \A c \in {"c1"} :
    \A n \in 1..MaxPayments :
      (mutation[c].status = "inserted" /\ Len(dbPayments) = n) ~> [](LoadedUpTo(c, n))

C16_Witness ==
  \E c \in Clients :
    /\ toast[c] = "Payment recorded!"
    /\ ~paymentsInvalidated[c]
    /\ dbPayments # <<>>
    /\ LoadedUpTo(c, Len(dbPayments))

\* the insert of the payment submitted by client c fails in this step
InsertFails(c) == mutation[c].status = "pending" /\ mutation'[c].status = "idle"

\* C17: a step in which the insert of a payment fails shows the failure and
\* changes nothing else: no row is recorded, no insert is left pending, the
\* payments query is not invalidated, and the selected stall, the amounts,
\* the narration, the payment type and the visibility of the form stay as
\* entered.
C17_FailedInsertOnlyReports ==
  [][\A c \in Clients :
       InsertFails(c) =>
         /\ toast'[c] = "Failed to record payment"
         /\ dbPayments' = dbPayments
         /\ mutation'[c] = Idle
         /\ paymentsInvalidated' = paymentsInvalidated
         /\ payments' = payments
         /\ stallPayment' = stallPayment
         /\ otherPayment' = otherPayment
         /\ showPaymentForm' = showPaymentForm
         /\ paymentType' = paymentType]_vars

C17_Witness ==
  \E c \in Clients :
    /\ toast[c] = "Failed to record payment"
    /\ mutation[c] = Idle
    /\ showPaymentForm[c]
    /\ \/ paymentType[c] = "stall" /\ stallPayment[c].stallId # "" /\ stallPayment[c].amount # Absent
       \/ paymentType[c] = "other" /\ otherPayment[c].narration # "" /\ otherPayment[c].amount # Absent

\* a step of a payment operation of client c: a submission (accepted or
\* rejected), the insert, or one of its callbacks
PaymentOperation(c) == mutation'[c] # mutation[c] \/ toast'[c] # toast[c]

\* C18: a payment operation, of either type and whatever its outcome, leaves
\* the billing transactions, the stalls and the registrations as they are, in
\* storage and as loaded, so the billed amount and the bill balance of every
\* stall and the total collected are the same after it as before.
C18_PaymentsLeaveBillingUnchanged ==
  [][\A c \in Clients :
       PaymentOperation(c) =>
         /\ dbBilling' = dbBilling /\ dbStalls' = dbStalls /\ dbRegistrations' = dbRegistrations
         /\ billingTransactions' = billingTransactions
         /\ stalls' = stalls
         /\ registrations' = registrations
         /\ \A sid \in StallIds :
              /\ BilledAmount(billingTransactions'[c], sid) = BilledAmount(billingTransactions[c], sid)
              /\ BillBalance(billingTransactions'[c], sid) = BillBalance(billingTransactions[c], sid)
         /\ TotalCollected(c)' = TotalCollected(c)]_vars

C18_Witness ==
  \E c \in Clients :
    /\ Len(dbPayments) = MaxPayments
    /\ dbPayments[1].payment_type # dbPayments[MaxPayments].payment_type
    /\ toast[c] = "Payment recorded!"
    /\ TotalCollected(c) > 0
    /\ BilledAmount(billingTransactions[c], "s1") > 0

\* the handler's check turns the amount a away for the stall client c selected
Rejected(c, a) ==
  /\ SelectedStallDetails(c) # Absent
  /\ ExceedsRemaining(a, Details(c).remainingBalance)

\* C19: for a selected stall with no billing transactions, billed amount, bill
\* balance and remaining balance are all 0 whichever payments exist, and
\* every amount greater than 0 is rejected for it.
C19_NoBillingMeansNothingToPay ==
  \A c \in Clients :
    (Selected(c) /\ StallTransactions(billingTransactions[c], stallPayment[c].stallId) = <<>>) =>
      /\ Details(c).billedAmount = 0
      /\ Details(c).billBalance = 0
      /\ Details(c).remainingBalance = 0
      /\ \A a \in {x \in Amounts \cup LedgerAmounts : x > 0} : Rejected(c, a)

\* the stall of the example is selected with its one transaction and its one
\* payment loaded
ExampleLoaded(c) ==
  /\ stallPayment[c].stallId = "s1"
  /\ billingTransactions[c] = <<Tx("s1", 16000, <<Item(Some(10000), Some(2), Some(20))>>)>>
  /\ payments[c] = <<PaymentRow("participant", Some("s1"), 5000)>>

\* C20: for a stall with one billing transaction of total 160 holding the
\* single line item {price 100, quantity 2, margin 20} and one participant
\* payment of 50, billed amount is 160, bill balance 160, already paid 50 and
\* remaining balance 110 (in paise: 16000, 16000, 5000, 11000).
C20_WorkedExample ==
  \A c \in Clients :
    ExampleLoaded(c) =>
      SelectedStallDetails(c) =
        Some([billedAmount |-> 16000, billBalance |-> 16000,
              alreadyPaid |-> 5000, remainingBalance |-> 11000])

C20_Witness == \E c \in Clients : ExampleLoaded(c) /\ StallAmountShown(c)

\* the per-stall figures of stall sid over the collections client c has loaded
StallFigures(c, sid) ==
  [billedAmount     |-> BilledAmount(billingTransactions[c], sid),
   billBalance      |-> BillBalance(billingTransactions[c], sid),
   alreadyPaid      |-> AlreadyPaid(payments[c], sid),
   remainingBalance |-> RemainingBalance(billingTransactions[c], payments[c], sid)]

\* the event-wide figures over the collections client c has loaded
EventFigures(c) ==
  <<TotalBillingCollected(c), TotalRegistrationCollected(c), StallBookingFees(c),
    TotalCollected(c), StallPaymentsTotal(c), TotalPaid(c), CashBalance(c),
    EmpBookingTotal(c), EmpRegTotal(c)>>

C22_SellingPriceIsDerived ==
  \A i \in 1..Len(dbProducts) :
    LET row == dbProducts[i]
        margin == IF row.event_margin = Absent THEN 2000 ELSE row.event_margin[1]
    IN  /\ row.selling_price # Absent
        /\ row.selling_price[1] * 10000 = row.cost_price * (10000 + margin)

\* the fields the page renders: fields.map with `if (!shouldShowField(field)) return null`
RenderedFields(e) == SelectSeq(e.fields, LAMBDA f : ShouldShowField(f, e.responses))

Rendered(e, id) == \E i \in 1..Len(RenderedFields(e)) : RenderedFields(e)[i].id = id

\* C23: whether a loaded field of the enquiry form is rendered is decided by
\* the current responses alone: a field without show_conditional_on is
\* rendered; a field with show_conditional_on = f is rendered exactly when the
\* response now stored for f is its conditional_value, and so is hidden while
\* f has no response, and again as soon as the response of f changes away.
C23_VisibilityFollowsResponses ==
  enquiry # Unmounted =>
    \A i \in 1..Len(enquiry.fields) :
      LET field == enquiry.fields[i]
          on == field.show_conditional_on
      IN Rendered(enquiry, field.id) <=>
           \/ on = Absent
           \/ /\ enquiry.responses[on[1]] # Absent
              /\ enquiry.responses[on[1]] = field.conditional_value

\* the conditional field was answered while shown and is hidden again after
\* the answer it depends on changed
C23_Witness ==
  /\ enquiry # Unmounted
  /\ Len(enquiry.fields) = 2
  /\ enquiry.responses["f1"] = Some("no")
  /\ enquiry.responses["f2"] = Some("x")
  /\ ~Rendered(enquiry, "f2")

\* what the claim asks of the form at submit time
StatedComplete(e) ==
  /\ Trim(e.name) # <<>>
  /\ Trim(e.mobile) # <<>>
  /\ Len(e.mobile) >= 10
  /\ e.selectedPanchayath # ""
  /\ e.selectedWard # ""
  /\ \A i \in 1..Len(e.fields) :
       (e.fields[i].is_active /\ e.fields[i].is_required /\ Rendered(e, e.fields[i].id))
         => e.responses[e.fields[i].id] \notin {Absent, Some("")}

\* C24: the insert of an enquiry is issued only by a submit of a form whose
\* name is not blank, whose mobile is not blank and at least 10 characters
\* long, with a panchayath and a ward selected and every rendered required
\* field answered, and it carries that form; a submit of any other form
\* issues nothing; and a row reaches stall_enquiries only as the row of an
\* issued insert.  A required field that is not rendered does not count.
C24_SubmitOnlyWhenComplete ==
  [][/\ (enquiry # Unmounted /\ enquiry' # Unmounted /\ enquiry.status # "pending")
          => /\ enquiry'.status = "pending" =>
                  /\ StatedComplete(enquiry)
                  /\ enquiry'.variables = Some(EnquiryPayload(enquiry))
             /\ dbEnquiries' = dbEnquiries
     /\ dbEnquiries' # dbEnquiries =>
          /\ enquiry.status = "pending"
          /\ dbEnquiries' = Append(dbEnquiries, enquiry.variables[1])]_vars

\* an enquiry was written with the conditional required field hidden and
\* unanswered
C24_Witness ==
  /\ Len(dbEnquiries) > 0
  /\ dbEnquiries[1].responses["f1"] = Some("no")
  /\ dbEnquiries[1].responses["f2"] = Absent
  /\ enquiry # Unmounted
  /\ enquiry.isSubmitted

\* ward w is a ward of panchayath p in table wards
WardBelongs(w, p) == \E i \in 1..Len(Wards) : Wards[i].id = w /\ Wards[i].panchayath_id = p

\* C25: on both forms a chosen ward is a ward of the panchayath now
\* selected, because choosing another panchayath clears the ward; so every
\* row of stall_enquiries and of survey_shares holds a ward_id of the
\* panchayath_id written with it.
C25_WardBelongsToPanchayath ==
  /\ enquiry # Unmounted =>
       (enquiry.selectedWard # "" => WardBelongs(enquiry.selectedWard, enquiry.selectedPanchayath))
  /\ surveyCreate # Unmounted =>
       (surveyCreate.formData.ward_id # "" =>
          WardBelongs(surveyCreate.formData.ward_id, surveyCreate.formData.panchayath_id))
  /\ \A i \in 1..Len(dbEnquiries) :
       /\ dbEnquiries[i].panchayath_id # Absent
       /\ dbEnquiries[i].ward_id # Absent
       /\ WardBelongs(dbEnquiries[i].ward_id[1], dbEnquiries[i].panchayath_id[1])
  /\ \A i \in 1..Len(dbShares) : WardBelongs(dbShares[i].ward_id, dbShares[i].panchayath_id)

\* an enquiry of ward w1 of p1 was written and the form, switched to p2
\* while the insert was pending, has no ward
C25_Witness ==
  /\ Len(dbEnquiries) > 0
  /\ dbEnquiries[1].panchayath_id = Some("p1")
  /\ dbEnquiries[1].ward_id = Some("w1")
  /\ enquiry # Unmounted
  /\ enquiry.selectedPanchayath = "p2"
  /\ enquiry.selectedWard = ""

\* the signed-in user is absent or is not a super admin
NotSuperAdmin(pg) == ~(pg.admin /\ pg.isSuperAdmin)

\* what the claim says of a page whose user is not a super admin
Locked(pg) ==
  (pg # Unmounted /\ NotSuperAdmin(pg)) =>
    /\ pg.authLoading
    /\ pg.admins = Absent
    /\ pg.selectedAdminId = ""
    /\ pg.status = "idle"

\* C26: while the user of the permission page is absent or not a super
\* admin, the admins list is not loaded, no admin is selected, no save is
\* running and no step changes admin_permissions; the page is in that state
\* only while the session is loading, and is left for /admin when the
\* loading ends.
C26_OnlySuperAdminChangesPermissions ==
  [][/\ Locked(permissionPage)
     /\ Locked(permissionPage')
     /\ (permissionPage # Unmounted /\ NotSuperAdmin(permissionPage))
          => dbPermissions' = dbPermissions]_vars

\* a user who is not a super admin was sent away and the table is as it was
C26_Witness ==
  /\ permissionPage = Unmounted
  /\ dbPermissions = StoredPermissions

\* the step that ends a savePermissions call with onSuccess
SaveEndsInSuccess ==
  /\ permissionPage # Unmounted
  /\ permissionPage.status # "idle"
  /\ permissionPage'.status = "idle"
  /\ permissionPage'.toast = "Success"

\* C27: when a savePermissions call for admin A ends in success, the stored
\* rows of A are exactly the entries of the saved table with a flag set, one
\* per module and with its four flags, the rows of the other admins are
\* untouched, and hasChanges is false.
C27_SavedRowsAreTheEditedTable ==
  [][permissionPage # Unmounted =>
       LET a == permissionPage.variables[1].admin_id
           saved == permissionPage.variables[1].permissions
       IN /\ permissionPage.status # "idle" =>
               WithoutAdmin(dbPermissions', a) = WithoutAdmin(dbPermissions, a)
          /\ SaveEndsInSuccess =>
               /\ PermissionsOf(dbPermissions', a) = ToInsert(saved)
               /\ ~permissionPage'.hasChanges]_vars

\* C28: the rows of admin_permissions change only in the step that ends a
\* savePermissions call in success, so that a call ending in an error has
\* changed nothing, and a delete that fails ends the call in an error.
C28_SaveIsAllOrNothing ==
  [][permissionPage # Unmounted =>
       /\ dbPermissions' # dbPermissions => SaveEndsInSuccess
       /\ ( /\ permissionPage.status = "deleting"
            /\ permissionPage'.status # "deleting"
            /\ PermissionsOf(dbPermissions, permissionPage.variables[1].admin_id) # <<>>
            /\ dbPermissions' = dbPermissions )
            => permissionPage'.toast = "Error"]_vars

\* how many rows of the table hold display_order v
OrderCount(table, v) == Cardinality({i \in 1..Len(table) : table[i].display_order = v})

\* C29: whenever no update of a reordering is in flight, the display_order
\* values stored for the fields are the values the fields started with,
\* each as often as before: a move exchanges the values of two neighbours or
\* writes nothing.
C29_ReorderIsASwap ==
  (enquiryAdmin # Unmounted /\ enquiryAdmin.requests = <<>>) =>
    \A v \in {PageFields[i].display_order : i \in 1..Len(PageFields)} :
      OrderCount(dbEnquiryFields, v) = OrderCount(PageFields, v)

\* C30: for the selected panchayath, once the share counts are loaded the
\* total is the number of its survey_shares rows and wards-with-shares the
\* number of distinct wards among them; and in every state, whichever query
\* has answered first, the displayed wards-without-shares is not negative
\* and is the number of loaded wards whose share count is 0.
C30_ResultCountsAgree ==
  (surveyResults # Unmounted /\ surveyResults.selectedPanchayath # "") =>
    LET p == surveyResults.selectedPanchayath
        rows == SharesOf(dbShares, p)
        loaded == IF surveyResults.wards = Absent THEN <<>> ELSE surveyResults.wards[1]
    IN /\ surveyResults.shareCounts # Absent =>
            /\ TotalShares(surveyResults) = Len(rows)
            /\ WardsWithShares(surveyResults) = Cardinality({rows[i].ward_id : i \in 1..Len(rows)})
       /\ WardsWithoutShares(surveyResults) >= 0
       /\ WardsWithoutShares(surveyResults) =
            Cardinality({i \in 1..Len(loaded) : GetShareCount(surveyResults, loaded[i].id) = 0})

====
